---- MODULE Spec2Model ----
(***************************************************************************)
(* Model of rcnmf/tsqr.py: the direct TSQR task-graph builder qr(data,     *)
(* name), the process-wide generator `names`, and the execution of a       *)
(* returned task graph by an engine that respects the graph's references.  *)
(*                                                                         *)
(* A dask array is a record [name, shape, blockdims, dask]; a task graph   *)
(* (a Python dict) is a function from keys <<name, i, j>> to recipes       *)
(* [op, args, index]; a dict in construction order does not matter, only   *)
(* the order of the update() calls does.                                   *)
(***************************************************************************)
EXTENDS Integers, Sequences, FiniteSets, TLC

VARIABLES
    names,      \* how many values the generator `names` has yielded (count(1))
    calls,      \* the qr calls made so far, in the order they were entered
    graph,      \* the task graph handed to the execution engine (<<>>: none)
    started,    \* keys of `graph` whose task has started
    finished    \* keys of `graph` whose task has finished

vars == <<names, calls, graph, started, finished>>

----------------------------------------------------------------------------
(* Bounds of the model.                                                    *)

MaxBlocks == 3       \* row blocks of a leaf input array
MaxBlockRows == 2    \* rows of one row block of a leaf input array
MaxCols == 2         \* columns of a leaf input array
MaxCalls == 2        \* qr calls of one session
ExecBlocks == 2      \* row blocks of the array whose Q graph is executed

----------------------------------------------------------------------------
(* Python values.                                                          *)

\* An optional value: <<>> is None, <<v>> is the value v.
None == <<>>
Some(v) == <<v>>

\* Python truthiness of an optional string: None and "" are falsy.
Truthy(name) == name # None /\ name[1] # ""

RECURSIVE Sum(_)
Sum(s) == IF s = <<>> THEN 0 ELSE Head(s) + Sum(Tail(s))

RECURSIVE Rep(_, _)
\* (v,) * k
Rep(v, k) == IF k <= 0 THEN <<>> ELSE <<v>> \o Rep(v, k - 1)

Range(s) == {s[i] : i \in DOMAIN s}

\* dict.update: every key of e is written, over d's entry if there is one.
update(d, e) ==
    [k \in (DOMAIN d) \cup (DOMAIN e) |-> IF k \in DOMAIN e THEN e[k] ELSE d[k]]

EmptyDict == <<>>

\* A recipe: the callable, the task keys among its arguments, and the
\* literal item index or slices of an operator.getitem.
Recipe(op, args, index) == [op |-> op, args |-> args, index |-> index]

----------------------------------------------------------------------------
(* Input arrays.                                                           *)

\* The keys a dask array defines: one per block.
BlockKeys(name, blockdims) ==
    IF Len(blockdims) = 1 THEN {<<name, i>> : i \in 0..(Len(blockdims[1]) - 1)}
    ELSE IF Len(blockdims) = 2 THEN
        {<<name, i, j>> : i \in 0..(Len(blockdims[1]) - 1),
                          j \in 0..(Len(blockdims[2]) - 1)}
    ELSE {<<name, i, j, k>> : i \in 0..(Len(blockdims[1]) - 1),
                              j \in 0..(Len(blockdims[2]) - 1),
                              k \in 0..(Len(blockdims[3]) - 1)}

\* A leaf dask array: every block is loaded by a task without arguments.
Leaf(name, blockdims) ==
    [name |-> name,
     shape |-> [d \in 1..Len(blockdims) |-> Sum(blockdims[d])],
     blockdims |-> blockdims,
     dask |-> [k \in BlockKeys(name, blockdims) |-> Recipe("load", <<>>, <<>>)]]

ndim(data) == Len(data.shape)

RowPartitions(maxblocks) ==
    UNION {[1..l -> 1..MaxBlockRows] : l \in 1..maxblocks}

\* Two-dimensional leaves with one column block.
MatrixLeaves(maxblocks) ==
    {Leaf("x", <<rows, <<n>>>>) : rows \in RowPartitions(maxblocks), n \in 1..MaxCols}

\* Inputs qr rejects: one- and three-dimensional arrays, and matrices with
\* two column blocks.
BadLeaves ==
    {Leaf("x", <<rows>>) : rows \in RowPartitions(1)}
    \cup {Leaf("x", <<rows, <<1>>, <<1>>>>) : rows \in RowPartitions(1)}
    \cup {Leaf("x", <<rows, <<1, n>>>>) : rows \in RowPartitions(1), n \in 1..(MaxCols - 1)}

----------------------------------------------------------------------------
(* names = ('tsqr_%d' % i for i in count(1))                               *)

\* 'tsqr_%d' % i
tsqr_name(i) == "tsqr_" \o ToString(i)

\* A generator that yields its first value again and again.
next_names_restarted(n) == <<tsqr_name(1), n + 1>>

\* next(names) for a generator that has yielded n values: <<value, state>>.
next_names(n) == <<tsqr_name(n + 1), n + 1>>

----------------------------------------------------------------------------
(* _findnumblocks                                                          *)

\* int(ceil(float(t[0]) / t[1])), exact for the sizes of the model
div_ceil(a, b) == IF a % b = 0 THEN a \div b ELSE (a \div b) + 1

_findnumblocks(shape, blockshape) ==
    [d \in 1..(IF Len(shape) < Len(blockshape) THEN Len(shape) ELSE Len(blockshape))
        |-> div_ceil(shape[d], blockshape[d])]

----------------------------------------------------------------------------
(* qr: validation                                                          *)

\* The test with its operands in the other order: blockdims is indexed
\* before the number of dimensions is known.
validate_swapped(data) ==
    IF Len(data.blockdims) < 2 THEN "IndexError"
    ELSE IF Len(data.blockdims[2]) # 1 THEN "ValueError"
    ELSE IF ndim(data) # 2 THEN "ValueError"
    ELSE "ok"

\* The outcome of `data.ndim == 2 and len(data.blockdims[1]) == 1`, whose
\* second operand is evaluated only when the first is true; indexing
\* blockdims past its end raises IndexError.
validate(data) ==
    IF ndim(data) # 2 THEN "ValueError"
    ELSE IF Len(data.blockdims) < 2 THEN "IndexError"
    ELSE IF Len(data.blockdims[2]) # 1 THEN "ValueError"
    ELSE "ok"

\* blockshape = (data.blockdims[0][0], data.blockdims[1][0])
blockshape(data) == <<data.blockdims[1][1], data.blockdims[2][1]>>

\* numblocks = _findnumblocks(data.shape, blockshape)
numblocks(data) == _findnumblocks(data.shape, blockshape(data))

----------------------------------------------------------------------------
(* qr: the stage dictionaries                                              *)

\* da.core.top(func, out, 'ij', arg, 'ij', ..., numblocks=...): one task per
\* block (i, j), applying func to block (i, j) of every argument.
top(func, out, argnames, nb) ==
    [k \in {<<out, i, j>> : i \in 0..(nb[1] - 1), j \in 0..(nb[2] - 1)} |->
        Recipe(func, [a \in DOMAIN argnames |-> <<argnames[a], k[2], k[3]>>], <<>>)]

name_qr_st1(prefix) == prefix \o "QR_st1"
name_q_st1(prefix) == prefix \o "Q_st1"
name_r_st1(prefix) == prefix \o "R_st1"
name_r_st1_stacked(prefix) == prefix \o "R_st1_stacked"
name_qr_st2(prefix) == prefix \o "QR_st2"
\* The auxiliary named like the slices.
name_q_st2_aux_clash(prefix) == prefix \o "Q_st2"
name_q_st2_aux(prefix) == prefix \o "Q_st2_aux"
name_q_st2(prefix) == prefix \o "Q_st2"
name_r_st2(prefix) == prefix \o "R"
name_q_st3(prefix) == prefix \o "Q"

dsk_qr_st1(data, prefix) ==
    top("qr", name_qr_st1(prefix), <<data.name>>, numblocks(data))

dsk_q_st1(data, prefix) ==
    [k \in {<<name_q_st1(prefix), i, 0>> : i \in 0..(numblocks(data)[1] - 1)} |->
        Recipe("getitem", << <<name_qr_st1(prefix), k[2], 0>> >>, <<0>>)]

dsk_r_st1(data, prefix) ==
    [k \in {<<name_r_st1(prefix), i, 0>> : i \in 0..(numblocks(data)[1] - 1)} |->
        Recipe("getitem", << <<name_qr_st1(prefix), k[2], 0>> >>, <<1>>)]

\* The list without its last block.
to_stack_short(data, prefix) ==
    [i \in 1..(numblocks(data)[1] - 1) |-> <<name_r_st1(prefix), i - 1, 0>>]

\* The arguments of _vstack, in the order of the list.
to_stack(data, prefix) ==
    [i \in 1..numblocks(data)[1] |-> <<name_r_st1(prefix), i - 1, 0>>]

dsk_r_st1_stacked(data, prefix) ==
    (<<name_r_st1_stacked(prefix), 0, 0>> :>
        Recipe("_vstack", to_stack(data, prefix), <<>>))

dsk_qr_st2(data, prefix) ==
    top("qr", name_qr_st2(prefix), <<name_r_st1_stacked(prefix)>>, <<1, 1>>)

dsk_q_st2_aux(data, prefix) ==
    (<<name_q_st2_aux(prefix), 0, 0>> :>
        Recipe("getitem", << <<name_qr_st2(prefix), 0, 0>> >>, <<0>>))

\* slice(i * d, (i + 1) * d) for i, d in zip(ijk, (n, n))
slices(i, j, n) == << <<i * n, (i + 1) * n>>, <<j * n, (j + 1) * n>> >>

dsk_q_st2(data, prefix) ==
    [k \in {<<name_q_st2(prefix), i, j>> : i \in 0..(numblocks(data)[1] - 1),
                                          j \in 0..(numblocks(data)[2] - 1)} |->
        Recipe("getitem", << <<name_q_st2_aux(prefix), 0, 0>> >>,
               slices(k[2], k[3], data.shape[2]))]

dsk_r_st2(data, prefix) ==
    (<<name_r_st2(prefix), 0, 0>> :>
        Recipe("getitem", << <<name_qr_st2(prefix), 0, 0>> >>, <<1>>))

dsk_q_st3(data, prefix) ==
    top("dot", name_q_st3(prefix), <<name_q_st1(prefix), name_q_st2(prefix)>>,
        numblocks(data))

----------------------------------------------------------------------------
(* qr: the two merged graphs and the returned arrays                       *)

\* The dictionaries merged into dsk_q, in the order of the update() calls.
q_parts(data, prefix) ==
    <<data.dask, dsk_qr_st1(data, prefix), dsk_q_st1(data, prefix),
      dsk_r_st1(data, prefix), dsk_r_st1_stacked(data, prefix),
      dsk_qr_st2(data, prefix), dsk_q_st2_aux(data, prefix),
      dsk_q_st2(data, prefix), dsk_q_st3(data, prefix)>>

\* The dictionaries merged into dsk_r, in the order of the update() calls.
r_parts(data, prefix) ==
    <<data.dask, dsk_qr_st1(data, prefix), dsk_r_st1(data, prefix),
      dsk_r_st1_stacked(data, prefix), dsk_qr_st2(data, prefix),
      dsk_r_st2(data, prefix)>>

RECURSIVE merge(_, _)
\* d.update(parts[1]); d.update(parts[2]); ...
merge(d, parts) ==
    IF parts = <<>> THEN d ELSE merge(update(d, Head(parts)), Tail(parts))

dsk_q(data, prefix) == merge(EmptyDict, q_parts(data, prefix))
dsk_r(data, prefix) == merge(EmptyDict, r_parts(data, prefix))

\* The block sizes da.Array derives from shape and blockshape: full blocks
\* of the block shape and a last block with the remainder.
blockdims_from_blockshape(shape, bs) ==
    [d \in 1..Len(shape) |->
        Rep(bs[d], shape[d] \div bs[d])
        \o (IF shape[d] % bs[d] # 0 THEN <<shape[d] % bs[d]>> ELSE <<>>)]

\* da.Array(dsk, name, shape=shape, blockshape=blockshape)
Array(dsk, name, shape, bs) ==
    [name |-> name, shape |-> shape,
     blockdims |-> blockdims_from_blockshape(shape, bs), dask |-> dsk]

q_array(data, prefix) ==
    Array(dsk_q(data, prefix), name_q_st3(prefix), data.shape, blockshape(data))

r_array(data, prefix) ==
    Array(dsk_r(data, prefix), name_r_st2(prefix),
          <<data.shape[2], data.shape[2]>>, <<data.shape[2], data.shape[2]>>)

----------------------------------------------------------------------------
(* State machine.                                                          *)

Init ==
    /\ names = 0
    /\ calls = <<>>
    /\ graph = <<>>
    /\ started = {}
    /\ finished = {}

\* qr is entered with (data, name) and checks its input (lines 46-53).
qr_validate(data, name) ==
    /\ calls' = Append(calls,
            [data |-> data, name |-> name,
             pc |-> IF validate(data) = "ok" THEN "prefix" ELSE "raised",
             error |-> IF validate(data) = "ok" THEN "" ELSE validate(data),
             prefix |-> "", result |-> None])
    /\ UNCHANGED <<names, graph, started, finished>>

\* prefix = name or next(names); prefix += '_' (lines 55-56), up to the
\* entry into the generator: a truthy name is the prefix; otherwise the call
\* enters next(names), which raises ValueError when another thread is
\* inside the generator.
qr_prefix(c) ==
    /\ calls[c].pc = "prefix"
    /\ calls' =
          IF Truthy(calls[c].name)
          THEN [calls EXCEPT ![c].prefix = calls[c].name[1] \o "_",
                             ![c].pc = "build"]
          ELSE IF \E d \in DOMAIN calls : calls[d].pc = "next"
          THEN [calls EXCEPT ![c].error = "ValueError: generator already executing",
                             ![c].pc = "raised"]
          ELSE [calls EXCEPT ![c].pc = "next"]
    /\ UNCHANGED <<names, graph, started, finished>>

\* The generator yields its next value to the call inside it, which appends
\* '_' (lines 16, 55-56).
qr_next(c) ==
    /\ calls[c].pc = "next"
    /\ calls' = [calls EXCEPT ![c].prefix = next_names(names)[1] \o "_",
                              ![c].pc = "build"]
    /\ names' = next_names(names)[2]
    /\ UNCHANGED <<graph, started, finished>>

\* The stage dictionaries are built and merged, and (q, r) is returned
\* (lines 58-126).
qr_build(c) ==
    /\ calls[c].pc = "build"
    /\ calls' = [calls EXCEPT
            ![c].result = <<q_array(calls[c].data, calls[c].prefix),
                            r_array(calls[c].data, calls[c].prefix)>>,
            ![c].pc = "done"]
    /\ UNCHANGED <<names, graph, started, finished>>

\* The Q array of a finished call is handed to the execution engine.
Compute(c) ==
    /\ graph = <<>>
    /\ calls[c].pc = "done"
    /\ graph' = calls[c].result[1].dask
    /\ UNCHANGED <<names, calls, started, finished>>

\* The engine starts a task once every task its recipe references has
\* finished.
StartTask(k) ==
    /\ k \notin started
    /\ \A a \in Range(graph[k].args) : a \in finished
    /\ started' = started \cup {k}
    /\ UNCHANGED <<names, calls, graph, finished>>

FinishTask(k) ==
    /\ k \in started \ finished
    /\ finished' = finished \cup {k}
    /\ UNCHANGED <<names, calls, graph, started>>

\* The name arguments of the model: no name, the empty string, a plain
\* name, and a name of the shape the generator yields.
NameArgs == {None, Some(""), Some("a"), Some("tsqr_1")}

\* One call on any leaf array.
Next ==
    \/ \E data \in MatrixLeaves(MaxBlocks) \cup BadLeaves, name \in NameArgs :
          Len(calls) = 0 /\ qr_validate(data, name)
    \/ \E c \in DOMAIN calls : qr_prefix(c)
    \/ \E c \in DOMAIN calls : qr_next(c)
    \/ \E c \in DOMAIN calls : qr_build(c)

Spec == Init /\ [][Next]_vars

\* The arrays a session passes to qr: a matrix of two row blocks, a vector,
\* and the Q and R arrays of any call that has returned.
SessionLeaves == {Leaf("x", << <<2, 2>>, <<2>> >>), Leaf("x", << <<2>> >>)}

SessionInputs ==
    SessionLeaves
    \cup {calls[c].result[i] : c \in {d \in DOMAIN calls : calls[d].pc = "done"},
                               i \in {1, 2}}

\* Up to MaxCalls calls, interleaved at the steps of qr.
SessionNext ==
    \/ \E data \in SessionInputs, name \in NameArgs :
          Len(calls) < MaxCalls /\ qr_validate(data, name)
    \/ \E c \in DOMAIN calls : qr_prefix(c)
    \/ \E c \in DOMAIN calls : qr_next(c)
    \/ \E c \in DOMAIN calls : qr_build(c)

SessionSpec == Init /\ [][SessionNext]_vars

\* The matrices whose Q graph is executed: one column, up to ExecBlocks row
\* blocks.
ExecLeaves == {Leaf("x", <<rows, <<1>>>>) : rows \in RowPartitions(ExecBlocks)}

\* One call, and the execution of its Q graph.
ExecNext ==
    \/ \E data \in ExecLeaves, name \in {None, Some("a")} :
          Len(calls) = 0 /\ qr_validate(data, name)
    \/ \E c \in DOMAIN calls : qr_prefix(c)
    \/ \E c \in DOMAIN calls : qr_next(c)
    \/ \E c \in DOMAIN calls : qr_build(c)
    \/ \E c \in DOMAIN calls : Compute(c)
    \/ \E k \in DOMAIN graph : StartTask(k)
    \/ \E k \in DOMAIN graph : FinishTask(k)

ExecSpec == Init /\ [][ExecNext]_vars

----------------------------------------------------------------------------
(* Vocabulary of the properties.                                           *)

DoneCalls == {c \in DOMAIN calls : calls[c].pc = "done"}
Q(c) == calls[c].result[1]
R(c) == calls[c].result[2]

\* The task keys the recipes of a graph reference.
Refs(g) == UNION {Range(g[k].args) : k \in DOMAIN g}

\* The keys of graph g whose name is nm.
Named(g, nm) == {k \in DOMAIN g : k[1] = nm}

\* The keys a call creates: those of its graphs that its input's graph did
\* not hand down.
CreatedKeys(c) ==
    ((DOMAIN Q(c).dask) \cup (DOMAIN R(c).dask)) \ (DOMAIN calls[c].data.dask)

\* Every entry of every merged dictionary is in g as that dictionary had it.
Kept(parts, g) ==
    \A p \in DOMAIN parts : \A k \in DOMAIN parts[p] :
        k \in DOMAIN g /\ g[k] = parts[p][k]

\* The nine task names a call with this prefix forms.
StageNames(prefix) ==
    {name_qr_st1(prefix), name_q_st1(prefix), name_r_st1(prefix),
     name_r_st1_stacked(prefix), name_qr_st2(prefix), name_q_st2_aux(prefix),
     name_q_st2(prefix), name_r_st2(prefix), name_q_st3(prefix)}

\* None of the call's task names names a key of its input's graph.
FreshNames(c) ==
    \A k \in DOMAIN calls[c].data.dask : k[1] \notin StageNames(calls[c].prefix)

\* The least c with c * b >= a.
Ceil(a, b) == CHOOSE c \in 0..a : c * b >= a /\ (c = 0 \/ (c - 1) * b < a)

Min(a, b) == IF a < b THEN a ELSE b

\* Every row block of the input has at least as many rows as the input has
\* columns.
TallBlocks(data) ==
    \A i \in DOMAIN data.blockdims[1] : data.blockdims[1][i] >= data.shape[2]

\* Not two-dimensional, or more than one column block.
Rejected(data) == ndim(data) # 2 \/ Len(data.blockdims[2]) # 1

----------------------------------------------------------------------------
(* C2: an input that is not two-dimensional, or that has more than one     *)
(* column block, makes qr raise ValueError before anything is built: the   *)
(* call has no prefix and returns no array.                                *)
C2_RejectedBeforeBuild ==
    \A c \in DOMAIN calls :
        Rejected(calls[c].data) =>
            /\ calls[c].pc = "raised"
            /\ calls[c].error = "ValueError"
            /\ calls[c].prefix = ""
            /\ calls[c].result = None

\* A one-dimensional input has been rejected.
C2_Witness ==
    \E c \in DOMAIN calls : ndim(calls[c].data) = 1 /\ calls[c].pc = "raised"

----------------------------------------------------------------------------
(* C3: while the Q graph is executed, the stack task has started only if   *)
(* every local-triangular extraction task has finished; every slice task   *)
(* and every assembly task has started only if the Stage2 factorization    *)
(* has finished; there is one stack task and one Stage2 factorization; and *)
(* the slice of block i is referenced by the assembly task of block i and  *)
(* by no other.                                                            *)
C3_StageOrdering ==
    graph # <<>> =>
        LET p == calls[1].prefix
            stack == Named(graph, name_r_st1_stacked(p))
            fact == Named(graph, name_qr_st2(p))
        IN  /\ stack = {<<name_r_st1_stacked(p), 0, 0>>}
            /\ fact = {<<name_qr_st2(p), 0, 0>>}
            /\ \A i \in 0..(Len(calls[1].result[1].blockdims[1]) - 1) :
                    <<name_r_st1(p), i, 0>> \in DOMAIN graph
            /\ stack \subseteq started => Named(graph, name_r_st1(p)) \subseteq finished
            /\ \A k \in Named(graph, name_q_st2(p)) \cup Named(graph, name_q_st3(p)) :
                    k \in started => fact \subseteq finished
            /\ \A k \in Named(graph, name_q_st2(p)) :
                    {a \in Named(graph, name_q_st3(p)) : k \in Range(graph[a].args)}
                        = {<<name_q_st3(p), k[2], k[3]>>}

\* An assembly task of a two-block graph has started.
C3_Witness ==
    /\ graph # <<>>
    /\ Cardinality(Named(graph, name_r_st1(calls[1].prefix))) >= 2
    /\ \E k \in Named(graph, name_q_st3(calls[1].prefix)) : k \in started

----------------------------------------------------------------------------
(* C4: two calls given distinct explicit names create no task key in       *)
(* common.                                                                 *)
C4_DistinctNamesDisjointKeys ==
    \A c, d \in DoneCalls :
        (/\ c # d
         /\ calls[c].name # None
         /\ calls[d].name # None
         /\ calls[c].name # calls[d].name)
        => CreatedKeys(c) \cap CreatedKeys(d) = {}

----------------------------------------------------------------------------
----------------------------------------------------------------------------
(* C6, as claimed: for every accepted input and every name, every entry of *)
(* every dictionary merged into the Q graph and into the R graph is in the *)
(* result as that dictionary had it.                                       *)
C6_MergeKeepsEveryEntry ==
    \A c \in DoneCalls :
        /\ Kept(q_parts(calls[c].data, calls[c].prefix), Q(c).dask)
        /\ Kept(r_parts(calls[c].data, calls[c].prefix), R(c).dask)

(* C6, amended: the same, for the calls none of whose nine task names      *)
(* (the prefix followed by QR_st1, Q_st1, R_st1, R_st1_stacked, QR_st2,    *)
(* Q_st2_aux, Q_st2, R or Q) names a key of the input's graph.             *)
C6_MergeKeepsEntriesOfFreshNames ==
    \A c \in DoneCalls :
        FreshNames(c) =>
            /\ Kept(q_parts(calls[c].data, calls[c].prefix), Q(c).dask)
            /\ Kept(r_parts(calls[c].data, calls[c].prefix), R(c).dask)

\* A call whose input is the Q array of an earlier call has returned, its
\* task names fresh.
C6_Witness ==
    \E c, d \in DoneCalls :
        /\ d < c
        /\ calls[c].data = Q(d)
        /\ FreshNames(c)

----------------------------------------------------------------------------
(* C7: for an accepted input (row blocks of at least n rows), the Q array  *)
(* has the shape of the input and its row partitioning.                    *)
C7_QKeepsShapeAndPartitioning ==
    \A c \in DoneCalls :
        TallBlocks(calls[c].data) =>
        /\ Q(c).shape = calls[c].data.shape
        /\ Q(c).blockdims = calls[c].data.blockdims

----------------------------------------------------------------------------
(* C8: for an accepted input (row blocks of at least n rows), the local-QR *)
(* tasks are those of the blocks 0 .. ceil(m / br) - 1, column 0, which    *)
(* are the row blocks of the input, each task applied to its block.        *)
C8_OneLocalQRPerInputBlock ==
    \A c \in DoneCalls :
        LET data == calls[c].data
            tasks == Named(Q(c).dask, name_qr_st1(calls[c].prefix))
            nb == Ceil(data.shape[1], data.blockdims[1][1])
        IN  TallBlocks(data) =>
            /\ tasks = {<<name_qr_st1(calls[c].prefix), i, 0>> : i \in 0..(nb - 1)}
            /\ nb = Len(data.blockdims[1])
            /\ \A k \in tasks : Q(c).dask[k].args = << <<data.name, k[2], 0>> >>

----------------------------------------------------------------------------
(* C9: for an accepted input (row blocks of at least n rows), the slice    *)
(* task of block i selects rows [i*n, (i+1)*n); the ranges are pairwise    *)
(* disjoint and their union is the row set of the auxiliary, which has     *)
(* min(rows_i, n) rows for each block i, stacked in ascending block order. *)
C9_SlicesCoverAuxiliary ==
    \A c \in DoneCalls :
        LET data == calls[c].data
            g == Q(c).dask
            p == calls[c].prefix
            n == data.shape[2]
            rows == data.blockdims[1]
            aux == Sum([i \in 1..Len(rows) |-> Min(rows[i], n)])
            sl == Named(g, name_q_st2(p))
            RowsOf(k) == g[k].index[1][1] .. (g[k].index[1][2] - 1)
        IN  TallBlocks(data) =>
            /\ sl = {<<name_q_st2(p), i, 0>> : i \in 0..(Len(rows) - 1)}
            /\ \A k \in sl : g[k].index[1] = <<k[2] * n, (k[2] + 1) * n>>
            /\ \A k, l \in sl : k # l => RowsOf(k) \cap RowsOf(l) = {}
            /\ UNION {RowsOf(k) : k \in sl} = 0..(aux - 1)
            /\ g[<<name_r_st1_stacked(p), 0, 0>>].args
                    = [i \in 1..Len(rows) |-> <<name_r_st1(p), i - 1, 0>>]

----------------------------------------------------------------------------
(* C10: for an accepted input (row blocks of at least n rows) whose graph  *)
(* defines a key for each of its blocks, every key a recipe of the Q graph *)
(* references is a key of the Q graph, and every key a recipe of the R     *)
(* graph references is a key of the R graph, which holds no slice and no   *)
(* assembly task.                                                          *)
C10_GraphsDependencyClosed ==
    \A c \in DoneCalls :
        LET data == calls[c].data IN
        (/\ TallBlocks(data)
         /\ BlockKeys(data.name, data.blockdims) \subseteq DOMAIN data.dask) =>
            /\ Refs(Q(c).dask) \subseteq DOMAIN Q(c).dask
            /\ Refs(R(c).dask) \subseteq DOMAIN R(c).dask
            /\ Named(R(c).dask, name_q_st2(calls[c].prefix)) = {}
            /\ Named(R(c).dask, name_q_st3(calls[c].prefix)) = {}

====
